---- MODULE Spec2Model ----
(***************************************************************************)
(* Model of the flowing-text layout of TTQC.py (TimeImageGenerator):       *)
(* wrap_text and create_flowing_text.  Strings are sequences of            *)
(* one-character strings; a font is its table of character advances, and   *)
(* the width font.getbbox reports for a string is the sum of the advances  *)
(* of its characters.  The image is the sequence of draw.text calls made   *)
(* on it, in drawing order.                                                *)
(***************************************************************************)
EXTENDS Integers, Sequences, FiniteSets

VARIABLES
    \* the layout: create_flowing_text
    max_width,        \* self.config["quote_text"]["max_width"]
    system_fonts,     \* whether get_font finds a system font file
    pc,               \* "idle", "drawn" (image drawn, not yet saved) or "returned"
    data,             \* the row handed to create_flowing_text
    complete_text,    \* create_flowing_text: the merged quote text
    formatting_info,  \* create_flowing_text: one record per non-empty quote part
    lines,            \* create_flowing_text: the wrapped lines
    draws,            \* the draw.text calls made on the image, in order
    result,           \* what create_flowing_text returned, "none" outside a return
    \* the record of earlier layout passes (history, not program state)
    earlier,          \* the first pass's row and image, and what ran since
    \* the interval loop: run_at_minute_top
    running,          \* running_state[0]
    loop_pc,          \* "off", "while", "sample", "run", "sleep30", "sleep1", "exited"
    clock,            \* the minute datetime.now() is in
    current_minute,   \* run_at_minute_top: current_minute, None before the first sample
    last_minute,      \* run_at_minute_top: last_minute, None at first
    success,          \* run_at_minute_top: success ("True", "False"), "unset" before the first run
    succeeded,        \* the minutes generator.run() succeeded for (history)
    late_starts,      \* generations started after the flag was cleared (history)
    waited,           \* the last sample found no new minute and started nothing (history)
    retried,          \* a generation was started right after a failed one (history)
    failed_minute,    \* the minute of the last generation if it failed, else None (history)
    \* the time source: get_current_time
    use_ntp,          \* self.use_ntp
    ntp_available,    \* NTP_AVAILABLE
    ntp_server,       \* self.ntp_server, "None" when not given
    time_pc,          \* "off", "start", "defaults" or "done"
    server_index,     \* the place in ntp_servers the loop is at
    queried,          \* the requests made, in order, each with its outcome (history)
    current_time,     \* the time returned, None before
    time_source       \* where the returned time came from (history)

layout_vars == <<max_width, system_fonts, pc, data, complete_text, formatting_info,
                 lines, draws, result>>

interval_vars == <<running, loop_pc, clock, current_minute, last_minute, success,
                   succeeded, late_starts, waited, retried, failed_minute>>

time_vars == <<use_ntp, ntp_available, ntp_server, time_pc, server_index, queried,
               current_time, time_source>>

vars == <<layout_vars, earlier, interval_vars, time_vars>>

---------------------------------------------------------------------------
\* Bounds of the model.

\* The three quote parts together hold at most this many characters.
MaxTotalLen == 4

\* max_width of the loaded configuration ranges over 1..MaxWidthCfg.
MaxWidthCfg == 5

\* The characters of the model: two letters and two whitespace characters.
Chars == {"a", "b", " ", "\t"}

\* The character U+2014 of the author line's marker.
EmDash == "emdash"

Titles == {<<>>, <<"a", "b">>}

Authors == {<<>>, <<"b">>}

---------------------------------------------------------------------------
\* Program constants (the default configuration and the fixed positions).

ImageWidth == 640

ImageHeight == 400

QuoteFontSize == 38

QuoteLineSpacing == 8

AttrFontSize == 32

AttrLineSpacing == 5

StartY == 50

BottomMargin == 50

---------------------------------------------------------------------------
\* Fonts.

\* Advances of the regular, the bold and PIL's default (fixed-width) font.
FontRegular == [c \in Chars |-> IF c = "b" THEN 2 ELSE 1]

FontBold == [c \in Chars |-> IF c = "a" THEN 2 ELSE IF c = "b" THEN 3 ELSE 1]

FontDefault == [c \in Chars |-> 1]

\* get_font: the first font file that loads, else ImageFont.load_default().
get_font(found, font_weight) ==
    IF ~found THEN FontDefault
    ELSE IF font_weight \in {"bold", "semibold", "extrabold", "extra-bold", "black"}
         THEN FontBold
         ELSE FontRegular

\* font.getbbox(s)[2] - font.getbbox(s)[0]
RECURSIVE getbbox_width(_, _)
getbbox_width(font, s) ==
    IF s = <<>> THEN 0 ELSE font[Head(s)] + getbbox_width(font, Tail(s))

---------------------------------------------------------------------------
\* Python string operations.

\* str.isspace for one character
IsSpace(c) == c \in {" ", "\t"}

RECURSIVE SplitFrom(_, _, _, _)
SplitFrom(text, i, word, words) ==
    IF i > Len(text)
    THEN (IF word = <<>> THEN words ELSE Append(words, word))
    ELSE IF IsSpace(text[i])
         THEN SplitFrom(text, i + 1, <<>>,
                        IF word = <<>> THEN words ELSE Append(words, word))
         ELSE SplitFrom(text, i + 1, Append(word, text[i]), words)

\* text.split(): the maximal runs of non-whitespace characters
split(text) == SplitFrom(text, 1, <<>>, <<>>)

\* sub in s
contains(s, sub) ==
    \E i \in 0..(Len(s) - Len(sub)) : SubSeq(s, i + 1, i + Len(sub)) = sub

\* s.find(sub): the lowest index (from 0) where sub occurs in s, or -1
find(s, sub) ==
    IF contains(s, sub)
    THEN CHOOSE i \in 0..(Len(s) - Len(sub)) :
            /\ SubSeq(s, i + 1, i + Len(sub)) = sub
            /\ \A j \in 0..(i - 1) : SubSeq(s, j + 1, j + Len(sub)) # sub
    ELSE -1

\* s[i:] and s[:i] for 0 <= i
slice_from(s, i) == SubSeq(s, i + 1, Len(s))

slice_to(s, i) == SubSeq(s, 1, i)

---------------------------------------------------------------------------
\* wrap_text

\* wrap_step with its last branch dropping the word that does not fit.
wrap_step_drops_word(st, word, font, mw) ==
    LET current_line == st.current_line
        test_line == current_line \o (IF current_line # <<>> THEN <<" ">> ELSE <<>>) \o word
        text_width == getbbox_width(font, test_line)
    IN  IF text_width <= mw
        THEN [lines |-> st.lines, current_line |-> test_line]
        ELSE IF current_line # <<>>
             THEN [lines |-> Append(st.lines, current_line), current_line |-> word]
             ELSE [lines |-> st.lines, current_line |-> current_line]

\* wrap_step measuring the word alone instead of the candidate line.
wrap_step_measures_word(st, word, font, mw) ==
    LET current_line == st.current_line
        test_line == current_line \o (IF current_line # <<>> THEN <<" ">> ELSE <<>>) \o word
        text_width == getbbox_width(font, word)
    IN  IF text_width <= mw
        THEN [lines |-> st.lines, current_line |-> test_line]
        ELSE IF current_line # <<>>
             THEN [lines |-> Append(st.lines, current_line), current_line |-> word]
             ELSE [lines |-> Append(st.lines, word), current_line |-> current_line]

\* wrap_step flushing the candidate line, not the buffer, when the word does not fit.
wrap_step_flushes_candidate(st, word, font, mw) ==
    LET current_line == st.current_line
        test_line == current_line \o (IF current_line # <<>> THEN <<" ">> ELSE <<>>) \o word
        text_width == getbbox_width(font, test_line)
    IN  IF text_width <= mw
        THEN [lines |-> st.lines, current_line |-> test_line]
        ELSE [lines |-> Append(st.lines, test_line), current_line |-> <<>>]

\* wrap_step accepting the candidate line only when it is narrower than mw.
wrap_step_strict(st, word, font, mw) ==
    LET current_line == st.current_line
        test_line == current_line \o (IF current_line # <<>> THEN <<" ">> ELSE <<>>) \o word
        text_width == getbbox_width(font, test_line)
    IN  IF text_width < mw
        THEN [lines |-> st.lines, current_line |-> test_line]
        ELSE IF current_line # <<>>
             THEN [lines |-> Append(st.lines, current_line), current_line |-> word]
             ELSE [lines |-> Append(st.lines, word), current_line |-> current_line]

\* One iteration of the loop over the words: st is <<lines, current_line>>.
wrap_step(st, word, font, mw) ==
    LET current_line == st.current_line
        test_line == current_line \o (IF current_line # <<>> THEN <<" ">> ELSE <<>>) \o word
        text_width == getbbox_width(font, test_line)
    IN  IF text_width <= mw
        THEN [lines |-> st.lines, current_line |-> test_line]
        ELSE IF current_line # <<>>
             THEN [lines |-> Append(st.lines, current_line), current_line |-> word]
             ELSE [lines |-> Append(st.lines, word), current_line |-> current_line]

RECURSIVE wrap_loop(_, _, _, _, _)
wrap_loop(words, i, st, font, mw) ==
    IF i > Len(words) THEN st
    ELSE wrap_loop(words, i + 1, wrap_step(st, words[i], font, mw), font, mw)

wrap_text(text, font, mw) ==
    LET st == wrap_loop(split(text), 1, [lines |-> <<>>, current_line |-> <<>>], font, mw)
    IN  IF st.current_line # <<>> THEN Append(st.lines, st.current_line) ELSE st.lines

---------------------------------------------------------------------------
\* create_flowing_text: the merged text and its formatting records

quote_parts(d) ==
    << [text |-> d.quote_part1, is_highlighted |-> FALSE],
       [text |-> d.quote_part2, is_highlighted |-> TRUE],
       [text |-> d.quote_part3, is_highlighted |-> FALSE] >>

\* build_step putting a blank before every part but the first.
build_step_always_separates(acc, part) ==
    IF part.text = <<>> THEN acc
    ELSE LET sep == IF acc.complete_text # <<>> THEN <<" ">> ELSE <<>>
             start_pos == Len(acc.complete_text) + Len(sep)
             text2 == acc.complete_text \o sep \o part.text
         IN  [complete_text |-> text2,
              formatting_info |->
                  Append(acc.formatting_info,
                         [start |-> start_pos, end |-> Len(text2),
                          is_highlighted |-> part.is_highlighted,
                          text |-> part.text])]

\* build_step taking start_pos before it adds the blank.
build_step_start_before_blank(acc, part) ==
    IF part.text = <<>> THEN acc
    ELSE LET sep == IF acc.complete_text # <<>> /\ Head(part.text) # " "
                    THEN <<" ">> ELSE <<>>
             start_pos == Len(acc.complete_text)
             text2 == acc.complete_text \o sep \o part.text
         IN  [complete_text |-> text2,
              formatting_info |->
                  Append(acc.formatting_info,
                         [start |-> start_pos, end |-> start_pos + Len(part.text),
                          is_highlighted |-> part.is_highlighted,
                          text |-> part.text])]

\* One iteration of the loop over quote_parts: acc is <<complete_text, formatting_info>>.
build_step(acc, part) ==
    IF part.text = <<>> THEN acc
    ELSE LET sep == IF acc.complete_text # <<>> /\ Head(part.text) # " "
                    THEN <<" ">> ELSE <<>>
             start_pos == Len(acc.complete_text) + Len(sep)
             text2 == acc.complete_text \o sep \o part.text
         IN  [complete_text |-> text2,
              formatting_info |->
                  Append(acc.formatting_info,
                         [start |-> start_pos, end |-> Len(text2),
                          is_highlighted |-> part.is_highlighted,
                          text |-> part.text])]

RECURSIVE build_loop(_, _, _)
build_loop(parts, i, acc) ==
    IF i > Len(parts) THEN acc
    ELSE build_loop(parts, i + 1, build_step(acc, parts[i]))

build_text(d) ==
    build_loop(quote_parts(d), 1, [complete_text |-> <<>>, formatting_info |-> <<>>])

---------------------------------------------------------------------------
\* create_flowing_text: drawing the wrapped lines

\* A draw.text call: style names the font and fill it is given.
DrawCmd(x, y, text, style) == [x |-> x, y |-> y, text |-> text, style |-> style]

\* The loop over formatting_info with its break: the index of the first
\* highlighted record whose text occurs in the line, or 0 when there is none.
first_highlight(line, info) ==
    LET hits == {k \in 1..Len(info) :
                    info[k].is_highlighted /\ contains(line, info[k].text)}
    IN  IF hits = {} THEN 0 ELSE CHOOSE k \in hits : \A j \in hits : k <= j

\* draw_line taking the text after the highlight one character too far.
draw_line_after_skips(line, info, x0, y, normal_font, highlight_font) ==
    LET k == first_highlight(line, info)
    IN  IF k = 0
        THEN << DrawCmd(x0, y, line, "normal") >>
        ELSE LET text == info[k].text
                 highlight_start == find(line, text)
                 before_text == slice_to(line, highlight_start)
                 x1 == IF highlight_start > 0
                       THEN x0 + getbbox_width(normal_font, before_text)
                       ELSE x0
                 x2 == x1 + getbbox_width(highlight_font, text)
                 after_text == slice_from(line, highlight_start + Len(text) + 1)
             IN  (IF highlight_start > 0
                  THEN << DrawCmd(x0, y, before_text, "normal") >> ELSE <<>>)
                 \o << DrawCmd(x1, y, text, "highlight") >>
                 \o (IF after_text # <<>>
                     THEN << DrawCmd(x2, y, after_text, "normal") >> ELSE <<>>)

\* draw_line advancing past the highlight by its width in the normal font.
draw_line_normal_advance(line, info, x0, y, normal_font, highlight_font) ==
    LET k == first_highlight(line, info)
    IN  IF k = 0
        THEN << DrawCmd(x0, y, line, "normal") >>
        ELSE LET text == info[k].text
                 highlight_start == find(line, text)
                 before_text == slice_to(line, highlight_start)
                 x1 == IF highlight_start > 0
                       THEN x0 + getbbox_width(normal_font, before_text)
                       ELSE x0
                 x2 == x1 + getbbox_width(normal_font, text)
                 after_text == slice_from(line, highlight_start + Len(text))
             IN  (IF highlight_start > 0
                  THEN << DrawCmd(x0, y, before_text, "normal") >> ELSE <<>>)
                 \o << DrawCmd(x1, y, text, "highlight") >>
                 \o (IF after_text # <<>>
                     THEN << DrawCmd(x2, y, after_text, "normal") >> ELSE <<>>)

\* The draw.text calls of one line drawn at (x0, y).
draw_line(line, info, x0, y, normal_font, highlight_font) ==
    LET k == first_highlight(line, info)
    IN  IF k = 0
        THEN << DrawCmd(x0, y, line, "normal") >>
        ELSE LET text == info[k].text
                 highlight_start == find(line, text)
                 before_text == slice_to(line, highlight_start)
                 x1 == IF highlight_start > 0
                       THEN x0 + getbbox_width(normal_font, before_text)
                       ELSE x0
                 x2 == x1 + getbbox_width(highlight_font, text)
                 after_text == slice_from(line, highlight_start + Len(text))
             IN  (IF highlight_start > 0
                  THEN << DrawCmd(x0, y, before_text, "normal") >> ELSE <<>>)
                 \o << DrawCmd(x1, y, text, "highlight") >>
                 \o (IF after_text # <<>>
                     THEN << DrawCmd(x2, y, after_text, "normal") >> ELSE <<>>)

\* The loop over the lines: current_y advances by font_size + line_spacing.
RECURSIVE draw_lines(_, _, _, _, _, _, _, _)
draw_lines(ls, i, info, x0, current_y, normal_font, highlight_font, acc) ==
    IF i > Len(ls) THEN acc
    ELSE draw_lines(ls, i + 1, info, x0,
                    current_y + QuoteFontSize + QuoteLineSpacing,
                    normal_font, highlight_font,
                    acc \o draw_line(ls[i], info, x0, current_y,
                                     normal_font, highlight_font))

---------------------------------------------------------------------------
\* create_flowing_text: the attribution section

\* attribution_parts with the author line first and without its marker.
attribution_parts_author_first(d) ==
    (IF d.book_author # <<>> THEN << d.book_author >> ELSE <<>>)
    \o (IF d.book_title # <<>> THEN << d.book_title >> ELSE <<>>)

attribution_parts(d) ==
    (IF d.book_title # <<>> THEN << d.book_title >> ELSE <<>>)
    \o (IF d.book_author # <<>>
        THEN << <<EmDash, " ">> \o d.book_author >> ELSE <<>>)

\* attribution_height keeping the spacing after the last line.
attribution_height_with_last_spacing(parts) ==
    Len(parts) * (AttrFontSize + AttrLineSpacing)

attribution_height(parts) ==
    Len(parts) * (AttrFontSize + AttrLineSpacing) - AttrLineSpacing

\* The loop over attribution_parts: attribution_y advances after each part.
RECURSIVE draw_parts(_, _, _, _, _)
draw_parts(parts, i, x0, attribution_y, acc) ==
    IF i > Len(parts) THEN acc
    ELSE draw_parts(parts, i + 1, x0,
                    attribution_y + AttrFontSize + AttrLineSpacing,
                    Append(acc, DrawCmd(x0, attribution_y, parts[i], "attribution")))

draw_attribution(parts, x0) ==
    IF parts = <<>> THEN <<>>
    ELSE draw_parts(parts, 1, x0,
                    ImageHeight - BottomMargin - attribution_height(parts), <<>>)

start_x(mw) == (ImageWidth - mw) \div 2

---------------------------------------------------------------------------
\* The state machine.

\* Python's None where the model holds a number.
None == -1

NoData == [quote_part1 |-> <<>>, quote_part2 |-> <<>>, quote_part3 |-> <<>>,
           book_title |-> <<>>, book_author |-> <<>>]

\* The layout before any call, for a loaded configuration.
LayoutInit ==
    /\ max_width \in 1..MaxWidthCfg
    /\ system_fonts \in BOOLEAN
    /\ pc = "idle"
    /\ data = NoData
    /\ complete_text = <<>>
    /\ formatting_info = <<>>
    /\ lines = <<>>
    /\ draws = <<>>
    /\ result = "none"

\* The interval loop not entered (one-shot mode).
IntervalOff ==
    /\ running = TRUE
    /\ loop_pc = "off"
    /\ clock = 0
    /\ current_minute = None
    /\ last_minute = None
    /\ success = "unset"
    /\ succeeded = {}
    /\ late_starts = 0
    /\ waited = FALSE
    /\ retried = FALSE
    /\ failed_minute = None

\* get_current_time not called.
TimeOff ==
    /\ use_ntp = FALSE
    /\ ntp_available = FALSE
    /\ ntp_server = "None"
    /\ time_pc = "off"
    /\ server_index = 1
    /\ queried = <<>>
    /\ current_time = None
    /\ time_source = "none"

\* No layout pass has run.
NoEarlier == [data |-> NoData, draws |-> <<>>, passes |-> 0, other |-> FALSE]

Init ==
    /\ LayoutInit
    /\ earlier = NoEarlier
    /\ IntervalOff
    /\ TimeOff

\* new_image handing back the image of the first pass instead of a blank one.
image_of_first_pass == earlier.draws

\* Image.new: a blank image, nothing drawn on it.
new_image == <<>>

\* create_flowing_text(d), up to the last draw.text call.
layout_pass(d) ==
    /\ \E normal_font \in {get_font(system_fonts, "regular")} :
       \E highlight_font \in {get_font(system_fonts, "extra-bold")} :
       \E built \in {build_text(d)} :
       \E wrapped \in {wrap_text(built.complete_text, normal_font, max_width)} :
          /\ data' = d
          /\ complete_text' = built.complete_text
          /\ formatting_info' = built.formatting_info
          /\ lines' = wrapped
          /\ draws' = new_image
                      \o draw_lines(wrapped, 1, built.formatting_info,
                                    start_x(max_width), StartY,
                                    normal_font, highlight_font, <<>>)
                      \o draw_attribution(attribution_parts(d), start_x(max_width))
    /\ pc' = "drawn"
    /\ UNCHANGED <<max_width, system_fonts, result>>

\* create_flowing_text(data) with a row, up to the last draw.text call: lays
\* the quote and the attribution out on a new image.
create_flowing_text ==
    /\ pc = "idle"
    /\ \E n1 \in 0..MaxTotalLen : \E p1 \in [1..n1 -> Chars] :
       \E n2 \in 0..(MaxTotalLen - n1) : \E p2 \in [1..n2 -> Chars] :
       \E n3 \in 0..(MaxTotalLen - n1 - n2) : \E p3 \in [1..n3 -> Chars] :
       \E title \in Titles, author \in Authors :
          layout_pass([quote_part1 |-> p1, quote_part2 |-> p2, quote_part3 |-> p3,
                       book_title |-> title, book_author |-> author])
    /\ UNCHANGED <<earlier, interval_vars, time_vars>>

\* The rest of create_flowing_text: img.save succeeds or raises, the call
\* returns True or False, and the image and the locals are dropped.
save_image ==
    /\ pc = "drawn"
    /\ result' \in BOOLEAN
    /\ pc' = "returned"
    /\ data' = NoData
    /\ complete_text' = <<>>
    /\ formatting_info' = <<>>
    /\ lines' = <<>>
    /\ draws' = <<>>
    /\ UNCHANGED <<max_width, system_fonts>>
    /\ UNCHANGED <<earlier, interval_vars, time_vars>>

\* create_flowing_text(None): no row was found, nothing is drawn.
create_flowing_text_no_data ==
    /\ pc = "idle"
    /\ result' = FALSE
    /\ pc' = "returned"
    /\ UNCHANGED <<max_width, system_fonts, data, complete_text,
                   formatting_info, lines, draws>>
    /\ UNCHANGED <<earlier, interval_vars, time_vars>>

\* run() hands the returned value to its caller.
run_return ==
    /\ pc = "returned"
    /\ result' = "none"
    /\ pc' = "idle"
    /\ UNCHANGED <<max_width, system_fonts, data, complete_text,
                   formatting_info, lines, draws>>
    /\ UNCHANGED <<earlier, interval_vars, time_vars>>

Next ==
    \/ create_flowing_text
    \/ save_image
    \/ create_flowing_text_no_data
    \/ run_return

Spec == Init /\ [][Next]_vars

---------------------------------------------------------------------------
\* Layout passes run one after another on one generator.

\* In this specification the quote parts of the first pass together hold at
\* most this many characters.
MaxRepeatLen == 2

\* At most this many layout passes are run.
MaxPasses == 3

\* A row other than the first pass's, laid out between two passes.
OtherRow == [quote_part1 |-> <<"b">>, quote_part2 |-> <<"a">>,
             quote_part3 |-> <<"a", "b">>,
             book_title |-> <<"a", "b">>, book_author |-> <<>>]

\* The first create_flowing_text call on the generator; its row and image are kept.
first_layout ==
    /\ pc = "idle"
    /\ earlier.passes = 0
    /\ \E n1 \in 0..MaxRepeatLen : \E p1 \in [1..n1 -> Chars] :
       \E n2 \in 0..(MaxRepeatLen - n1) : \E p2 \in [1..n2 -> Chars] :
       \E n3 \in 0..(MaxRepeatLen - n1 - n2) : \E p3 \in [1..n3 -> Chars] :
       \E title \in Titles, author \in Authors :
          layout_pass([quote_part1 |-> p1, quote_part2 |-> p2, quote_part3 |-> p3,
                       book_title |-> title, book_author |-> author])
    /\ earlier' = [data |-> data', draws |-> draws', passes |-> 1, other |-> FALSE]
    /\ UNCHANGED <<interval_vars, time_vars>>

\* A later create_flowing_text call with the first pass's row.
repeat_layout ==
    /\ pc = "idle"
    /\ earlier.passes \in 1..(MaxPasses - 1)
    /\ layout_pass(earlier.data)
    /\ earlier' = [earlier EXCEPT !.passes = @ + 1]
    /\ UNCHANGED <<interval_vars, time_vars>>

\* A later create_flowing_text call with another row.
other_layout ==
    /\ pc = "idle"
    /\ earlier.passes \in 1..(MaxPasses - 1)
    /\ layout_pass(OtherRow)
    /\ earlier' = [earlier EXCEPT !.passes = @ + 1, !.other = TRUE]
    /\ UNCHANGED <<interval_vars, time_vars>>

RepeatNext ==
    \/ first_layout
    \/ repeat_layout
    \/ other_layout
    \/ save_image
    \/ create_flowing_text_no_data
    \/ run_return

SpecRepeat == Init /\ [][RepeatNext]_vars

---------------------------------------------------------------------------
\* Interval mode: run_at_minute_top.

\* The clock minutes run from 0 to this one.
MaxMinute == 3

Minutes == 0..MaxMinute

\* The test with >= in place of >.
is_new_minute_or_same(last, cur) == last = None \/ cur >= last

\* if last_minute is None or current_minute > last_minute
is_new_minute(last, cur) == last = None \/ cur > last

\* last_minute assigned whatever run() returned.
last_minute_after_any_run(ok, last, cur) == cur

\* last_minute after generator.run() returned ok in an iteration for minute cur.
last_minute_after(ok, last, cur) == IF ok THEN cur ELSE last

\* run_at_minute_top up to the loop: the flag set, the handlers installed,
\* last_minute = None.
IntervalInit ==
    /\ LayoutInit
    /\ earlier = NoEarlier
    /\ TimeOff
    /\ running = TRUE
    /\ loop_pc = "while"
    /\ clock \in Minutes
    /\ current_minute = None
    /\ last_minute = None
    /\ success = "unset"
    /\ succeeded = {}
    /\ late_starts = 0
    /\ waited = FALSE
    /\ retried = FALSE
    /\ failed_minute = None

\* while running_state[0]:
loop_test ==
    /\ loop_pc = "while"
    /\ loop_pc' = IF running THEN "sample" ELSE "exited"
    /\ UNCHANGED <<running, clock, current_minute, last_minute, success, succeeded,
                   late_starts, waited, retried, failed_minute>>
    /\ UNCHANGED <<layout_vars, earlier, time_vars>>

\* now = datetime.now(), current_minute, and the new-minute test; a generation
\* is started ("Generating new image") or the iteration goes to its sleep.
loop_sample ==
    /\ loop_pc = "sample"
    /\ current_minute' = clock
    /\ IF is_new_minute(last_minute, current_minute')
       THEN /\ loop_pc' = "run"
            /\ late_starts' = IF running THEN late_starts ELSE late_starts + 1
            /\ retried' = (retried \/ success = "False")
            /\ waited' = FALSE
       ELSE /\ loop_pc' = "sleep1"
            /\ waited' = TRUE
            /\ UNCHANGED <<late_starts, retried>>
    /\ UNCHANGED <<running, clock, last_minute, success, succeeded, failed_minute>>
    /\ UNCHANGED <<layout_vars, earlier, time_vars>>

\* success = generator.run() and the branch on it.
loop_run ==
    /\ loop_pc = "run"
    /\ \E ok \in BOOLEAN :
          /\ success' = IF ok THEN "True" ELSE "False"
          /\ last_minute' = last_minute_after(ok, last_minute, current_minute)
          /\ succeeded' = IF ok THEN succeeded \cup {current_minute} ELSE succeeded
          /\ loop_pc' = IF ok THEN "sleep1" ELSE "sleep30"
          /\ failed_minute' = IF ok THEN None ELSE current_minute
    /\ UNCHANGED <<running, clock, current_minute, late_starts, waited, retried>>
    /\ UNCHANGED <<layout_vars, earlier, time_vars>>

\* time.sleep(30); continue
loop_sleep30 ==
    /\ loop_pc = "sleep30"
    /\ loop_pc' = "while"
    /\ UNCHANGED <<running, clock, current_minute, last_minute, success, succeeded,
                   late_starts, waited, retried, failed_minute>>
    /\ UNCHANGED <<layout_vars, earlier, time_vars>>

\* time.sleep(1)
loop_sleep1 ==
    /\ loop_pc = "sleep1"
    /\ loop_pc' = "while"
    /\ UNCHANGED <<running, clock, current_minute, last_minute, success, succeeded,
                   late_starts, waited, retried, failed_minute>>
    /\ UNCHANGED <<layout_vars, earlier, time_vars>>

\* SIGINT or SIGTERM delivered, between any two steps of the loop.
signal_handler ==
    /\ loop_pc \notin {"off", "exited"}
    /\ running
    /\ running' = FALSE
    /\ UNCHANGED <<loop_pc, clock, current_minute, last_minute, success, succeeded,
                   late_starts, waited, retried, failed_minute>>
    /\ UNCHANGED <<layout_vars, earlier, time_vars>>

\* The wall clock reaches the next minute.
tick ==
    /\ loop_pc \notin {"off", "exited"}
    /\ clock < MaxMinute
    /\ clock' = clock + 1
    /\ UNCHANGED <<running, loop_pc, current_minute, last_minute, success, succeeded,
                   late_starts, waited, retried, failed_minute>>
    /\ UNCHANGED <<layout_vars, earlier, time_vars>>

\* The wall clock is set back (datetime.now() is local wall-clock time).
clock_set_back ==
    /\ loop_pc \notin {"off", "exited"}
    /\ \E m \in Minutes : m < clock /\ clock' = m
    /\ UNCHANGED <<running, loop_pc, current_minute, last_minute, success, succeeded,
                   late_starts, waited, retried, failed_minute>>
    /\ UNCHANGED <<layout_vars, earlier, time_vars>>

\* The steps of the loop itself.
loop_step ==
    \/ loop_test
    \/ loop_sample
    \/ loop_run
    \/ loop_sleep30
    \/ loop_sleep1

IntervalNext ==
    \/ loop_test
    \/ loop_sample
    \/ loop_run
    \/ loop_sleep30
    \/ loop_sleep1
    \/ signal_handler
    \/ tick
    \/ clock_set_back

\* The loop runs on as long as it has a step to take: generator.run() and the
\* sleeps return.  Signals and the clock are under no obligation.
SpecInterval ==
    /\ IntervalInit
    /\ [][IntervalNext]_vars
    /\ WF_vars(loop_step)

---------------------------------------------------------------------------
\* The time source: get_current_time.

\* The values of self.ntp_server: not given, given empty, a server of its own,
\* one of the default servers.
NtpServerArgs == {"None", "", "ntp.example.org", "time.apple.com"}

\* The default list with its first two servers the other way round.
ntp_servers_swapped ==
    <<"time.windows.com", "time.google.com", "time.apple.com", "pool.ntp.org",
      "time.nist.gov">>

\* ntp_servers, the default servers in the order they are tried.
ntp_servers ==
    <<"time.google.com", "time.windows.com", "time.apple.com", "pool.ntp.org",
      "time.nist.gov">>

\* if self.ntp_server: neither None nor the empty string.
is_given(server) == server \notin {"None", ""}

\* get_current_time is called on a generator built with some arguments.
TimeInit ==
    /\ LayoutInit
    /\ earlier = NoEarlier
    /\ IntervalOff
    /\ use_ntp \in BOOLEAN
    /\ ntp_available \in BOOLEAN
    /\ ntp_server \in NtpServerArgs
    /\ time_pc = "start"
    /\ server_index = 1
    /\ queried = <<>>
    /\ current_time = None
    /\ time_source = "none"

\* if self.use_ntp and NTP_AVAILABLE, and if self.ntp_server.
time_branch ==
    /\ time_pc = "start"
    /\ use_ntp /\ ntp_available
    /\ time_pc' = IF is_given(ntp_server) THEN "custom" ELSE "defaults"
    /\ UNCHANGED <<use_ntp, ntp_available, ntp_server, server_index, queried,
                   current_time, time_source>>
    /\ UNCHANGED <<layout_vars, earlier, interval_vars>>

\* The else branch: local time, no request made.
time_local ==
    /\ time_pc = "start"
    /\ ~(use_ntp /\ ntp_available)
    /\ \E t \in Minutes : current_time' = t
    /\ time_source' = "local"
    /\ time_pc' = "done"
    /\ UNCHANGED <<use_ntp, ntp_available, ntp_server, server_index, queried>>
    /\ UNCHANGED <<layout_vars, earlier, interval_vars>>

\* ntp_client.request(server, ...) inside its try: the server answers with a
\* time, which is returned, or the request raises and the next server is tried.
request(server, next_pc, next_index) ==
    \/ /\ \E t \in Minutes : current_time' = t
       /\ queried' = Append(queried, [server |-> server, answered |-> TRUE])
       /\ time_source' = server
       /\ time_pc' = "done"
       /\ UNCHANGED server_index
    \/ /\ queried' = Append(queried, [server |-> server, answered |-> FALSE])
       /\ time_pc' = next_pc
       /\ server_index' = next_index
       /\ UNCHANGED <<current_time, time_source>>

\* The request to the custom server.
query_custom ==
    /\ time_pc = "custom"
    /\ request(ntp_server, "defaults", server_index)
    /\ UNCHANGED <<use_ntp, ntp_available, ntp_server>>
    /\ UNCHANGED <<layout_vars, earlier, interval_vars>>

\* One turn of for server in ntp_servers.
query_default ==
    /\ time_pc = "defaults"
    /\ server_index <= Len(ntp_servers)
    /\ request(ntp_servers[server_index], "defaults", server_index + 1)
    /\ UNCHANGED <<use_ntp, ntp_available, ntp_server>>
    /\ UNCHANGED <<layout_vars, earlier, interval_vars>>

\* "All NTP servers failed. Falling back to local time."
time_fallback ==
    /\ time_pc = "defaults"
    /\ server_index > Len(ntp_servers)
    /\ \E t \in Minutes : current_time' = t
    /\ time_source' = "local"
    /\ time_pc' = "done"
    /\ UNCHANGED <<use_ntp, ntp_available, ntp_server, server_index, queried>>
    /\ UNCHANGED <<layout_vars, earlier, interval_vars>>

TimeNext ==
    \/ time_branch
    \/ time_local
    \/ query_custom
    \/ query_default
    \/ time_fallback

SpecTime == TimeInit /\ [][TimeNext]_vars

---------------------------------------------------------------------------
\* Notions the properties are stated in.

\* The font wrap_text measures with.
NormalFont == get_font(system_fonts, "regular")

\* The words of a sequence of lines, read line by line.
RECURSIVE WordsOfLines(_)
WordsOfLines(ls) ==
    IF ls = <<>> THEN <<>> ELSE split(Head(ls)) \o WordsOfLines(Tail(ls))

\* The number of words on the lines before line k.
WordsBefore(k) == Len(WordsOfLines(SubSeq(lines, 1, k - 1)))

---------------------------------------------------------------------------
\* Properties of wrap_text.

\* C1: the words of the wrapped lines, read line by line, are exactly the
\* words of the wrapped text, in the same order: none split, dropped or
\* duplicated.
WordPreservation ==
    pc = "drawn" => WordsOfLines(lines) = split(complete_text)

\* C1 witness: a text with a tab or a doubled blank between words is wrapped
\* into several lines, one of them holding two words.
WordPreservationWitness ==
    /\ pc = "drawn"
    /\ Len(lines) >= 2
    /\ \E k \in 1..Len(lines) : Len(split(lines[k])) >= 2
    /\ \E i \in 1..Len(complete_text) : complete_text[i] = "\t"

\* C5: a wrapped line of two or more words is at most max_width wide in the
\* normal font.
WidthBound ==
    pc = "drawn" =>
        \A k \in 1..Len(lines) :
            Len(split(lines[k])) >= 2 =>
                getbbox_width(NormalFont, lines[k]) <= max_width

\* C5 witness: one line holds two words, another is a single word wider than
\* max_width.
WidthBoundWitness ==
    /\ pc = "drawn"
    /\ \E k \in 1..Len(lines) : Len(split(lines[k])) >= 2
    /\ \E k \in 1..Len(lines) : getbbox_width(NormalFont, lines[k]) > max_width

\* C8: a word wider than max_width is a line of its own, whole, at its place
\* in the word order.
LongWordAlone ==
    pc = "drawn" =>
        LET words == split(complete_text)
        IN  \A i \in 1..Len(words) :
                getbbox_width(NormalFont, words[i]) > max_width =>
                    \E k \in 1..Len(lines) :
                        /\ lines[k] = words[i]
                        /\ WordsBefore(k) = i - 1

\* C8 witness: a word wider than max_width arrives while the buffer holds a
\* word that fits, and another word follows it.
LongWordAloneWitness ==
    /\ pc = "drawn"
    /\ LET words == split(complete_text)
       IN  /\ Len(words) = 3
           /\ getbbox_width(NormalFont, words[1]) <= max_width
           /\ getbbox_width(NormalFont, words[2]) > max_width
           /\ getbbox_width(NormalFont, words[3]) <= max_width
           /\ Len(lines) = 3

---------------------------------------------------------------------------
\* Properties of the merged text.

\* The number of characters between the end of record k - 1 (the start of the
\* text for the first record) and the start of record k.
Gap(k) ==
    formatting_info[k].start - (IF k = 1 THEN 0 ELSE formatting_info[k - 1].end)

\* The non-empty quote parts of the row, in order.
NonEmptyParts == SelectSeq(quote_parts(data), LAMBDA p : p.text # <<>>)

SpansMatchParts ==
    pc = "drawn" =>
        /\ Len(formatting_info) = Len(NonEmptyParts)
        /\ \A k \in 1..Len(formatting_info) :
              LET f == formatting_info[k]
              IN  /\ 0 <= f.start /\ f.start < f.end /\ f.end <= Len(complete_text)
                  /\ SubSeq(complete_text, f.start + 1, f.end) = NonEmptyParts[k].text
                  /\ f.is_highlighted = NonEmptyParts[k].is_highlighted
                  /\ Gap(k) \in {0, 1}
                  /\ k = 1 => f.start = 0
                  /\ k = Len(formatting_info) => f.end = Len(complete_text)
        /\ formatting_info = <<>> => complete_text = <<>>

\* C7 witness: an empty first part, and two non-empty parts with a blank
\* between their records.
SpansMatchPartsWitness ==
    /\ pc = "drawn"
    /\ data.quote_part1 = <<>>
    /\ Len(formatting_info) = 2
    /\ formatting_info[1].is_highlighted
    /\ Gap(2) = 1

---------------------------------------------------------------------------
\* Notions the properties of the drawn lines are stated in.

\* The y coordinate the k-th wrapped line is drawn at.
LineY(k) == StartY + (k - 1) * (QuoteFontSize + QuoteLineSpacing)

\* The draw.text calls of the quote, and those of the k-th wrapped line.
QuoteDraws == SelectSeq(draws, LAMBDA d : d.style # "attribution")

RunsOfLine(k) == SelectSeq(QuoteDraws, LAMBDA d : d.y = LineY(k))

\* The draw.text calls of the attribution section.
AttributionDraws == SelectSeq(draws, LAMBDA d : d.style = "attribution")

RECURSIVE ConcatTexts(_)
ConcatTexts(runs) ==
    IF runs = <<>> THEN <<>> ELSE Head(runs).text \o ConcatTexts(Tail(runs))

\* The [start, end) offsets of the words of a text.
RECURSIVE WordSpansFrom(_, _, _, _)
WordSpansFrom(text, i, start, acc) ==
    IF i > Len(text)
    THEN (IF start >= 0 THEN Append(acc, [start |-> start, end |-> Len(text)]) ELSE acc)
    ELSE IF IsSpace(text[i])
         THEN WordSpansFrom(text, i + 1, -1,
                            IF start >= 0
                            THEN Append(acc, [start |-> start, end |-> i - 1])
                            ELSE acc)
         ELSE WordSpansFrom(text, i + 1, IF start >= 0 THEN start ELSE i - 1, acc)

WordSpans == WordSpansFrom(complete_text, 1, -1, <<>>)

\* The [LineStart, LineEnd) offsets of the k-th wrapped line in the merged
\* text: from the start of its first word to the end of its last word.
LineStart(k) == WordSpans[WordsBefore(k) + 1].start

LineEnd(k) == WordSpans[WordsBefore(k + 1)].end

\* The records of the highlighted part (at most one).
HighlightSpans == {f \in {formatting_info[k] : k \in 1..Len(formatting_info)} :
                      f.is_highlighted}

\* The highlighted record shares characters with the k-th line.
Intersects(f, k) == f.start < LineEnd(k) /\ LineStart(k) < f.end

\* The highlighted record starts on line k and ends on line k + 1.
Straddles(f, k) ==
    /\ k < Len(lines)
    /\ LineStart(k) <= f.start /\ f.start < LineEnd(k)
    /\ LineStart(k + 1) < f.end /\ f.end <= LineEnd(k + 1)

---------------------------------------------------------------------------
\* Properties of the drawn lines.

\* C2 as stated: when the highlighted record starts on a line and ends on
\* the next, the first of the two lines ends with a highlight run and the
\* second begins with one, each holding the words of the record that lie on
\* its line.
StraddlingHighlightClipped ==
    pc = "drawn" =>
        \A f \in HighlightSpans : \A k \in 1..Len(lines) :
            Straddles(f, k) =>
                LET r1 == RunsOfLine(k)
                    r2 == RunsOfLine(k + 1)
                IN  /\ r1[Len(r1)].style = "highlight"
                    /\ split(r1[Len(r1)].text)
                          = split(SubSeq(complete_text, f.start + 1, LineEnd(k)))
                    /\ r2[1].style = "highlight"
                    /\ split(r2[1].text)
                          = split(SubSeq(complete_text, LineStart(k + 1) + 1, f.end))

\* C3 as stated: a line that shares no character with the highlighted record
\* (every line when the highlighted part is empty) is drawn as one normal run
\* holding the whole line.
UntouchedLineIsNormal ==
    pc = "drawn" =>
        \A k \in 1..Len(lines) :
            (\A f \in HighlightSpans : ~Intersects(f, k)) =>
                RunsOfLine(k) = << DrawCmd(start_x(max_width), LineY(k), lines[k], "normal") >>

\* C4: the texts of the runs drawn for a line, in drawing order, make up the
\* line's text exactly, and every run of the quote belongs to a line.
RunCoverage ==
    pc = "drawn" =>
        /\ \A k \in 1..Len(lines) : ConcatTexts(RunsOfLine(k)) = lines[k]
        /\ ConcatTexts(QuoteDraws) = ConcatTexts([k \in 1..Len(lines) |-> [text |-> lines[k]]])

\* C4 witness: a line drawn as three runs: the first part and a blank, the
\* highlighted word, and a blank and the third part.
RunCoverageWitness ==
    /\ pc = "drawn"
    /\ \E k \in 1..Len(lines) :
          /\ Len(RunsOfLine(k)) = 3
          /\ RunsOfLine(k)[1].text = data.quote_part1 \o <<" ">>
          /\ RunsOfLine(k)[2].style = "highlight"
          /\ RunsOfLine(k)[2].text = data.quote_part2
          /\ split(data.quote_part2) = <<data.quote_part2>>
          /\ RunsOfLine(k)[3].text = <<" ">> \o data.quote_part3

---------------------------------------------------------------------------
\* Properties of the attribution section.

\* C9: the attribution is one line per non-empty field among title and
\* author, the title first; the author line is the marker, a blank and the
\* author; with both fields empty nothing is drawn for it.
AttributionLines ==
    pc = "drawn" =>
        LET a == AttributionDraws
            n == (IF data.book_title # <<>> THEN 1 ELSE 0)
                 + (IF data.book_author # <<>> THEN 1 ELSE 0)
        IN  /\ Len(a) = n
            /\ data.book_title # <<>> => a[1].text = data.book_title
            /\ data.book_author # <<>> => a[n].text = <<EmDash, " ">> \o data.book_author

\* C9 witness: title and author are both present and two lines are drawn.
AttributionLinesWitness ==
    /\ pc = "drawn"
    /\ data.book_title # <<>>
    /\ data.book_author # <<>>
    /\ Len(AttributionDraws) = 2

\* C10: the first attribution line is drawn at y = image height - bottom
\* margin - (count * (font size + line spacing) - line spacing) and each next
\* one font size + line spacing lower, whatever the quote is.
AttributionAnchored ==
    pc = "drawn" =>
        LET a == AttributionDraws
        IN  \A k \in 1..Len(a) :
                a[k].y = ImageHeight - BottomMargin
                         - (Len(a) * (AttrFontSize + AttrLineSpacing) - AttrLineSpacing)
                         + (k - 1) * (AttrFontSize + AttrLineSpacing)

\* C10 witness: two attribution lines under a quote wrapped into three lines.
AttributionAnchoredWitness ==
    /\ pc = "drawn"
    /\ Len(AttributionDraws) = 2
    /\ Len(lines) = 3

---------------------------------------------------------------------------
\* Properties of the positions of the quote's runs.

\* The font a run of the quote is drawn and measured with.
StyleFont(style) ==
    IF style = "highlight" THEN get_font(system_fonts, "extra-bold") ELSE NormalFont

\* C11: the k-th wrapped line (k from 0) is drawn at y = start y + k * (font
\* size + line spacing); the first run of every line is at x = start x and
\* each next run at the x of the run before it plus that run's width in that
\* run's own font.
QuoteRunPositions ==
    pc = "drawn" =>
        /\ \A j \in 1..Len(QuoteDraws) :
              \E k \in 1..Len(lines) : QuoteDraws[j].y = LineY(k)
        /\ \A k \in 1..Len(lines) :
              LET r == RunsOfLine(k)
              IN  /\ r # <<>>
                  /\ r[1].x = start_x(max_width)
                  /\ \A j \in 1..(Len(r) - 1) :
                        r[j + 1].x = r[j].x + getbbox_width(StyleFont(r[j].style), r[j].text)

\* C11 witness: with fonts of different widths, a first line that starts with
\* the highlight run followed by a normal run, and a second line.
QuoteRunPositionsWitness ==
    /\ pc = "drawn"
    /\ system_fonts
    /\ Len(lines) >= 2
    /\ Len(RunsOfLine(1)) = 2
    /\ RunsOfLine(1)[1].style = "highlight"
    /\ RunsOfLine(1)[1].text = data.quote_part2
    /\ RunsOfLine(2) # <<>>

\* C13: for consecutive lines L and M, L, a blank and the first word of M
\* together are wider than max_width: a line is broken only where the next
\* word does not fit.
Greedy ==
    pc = "drawn" =>
        \A k \in 1..(Len(lines) - 1) :
            getbbox_width(NormalFont, lines[k] \o <<" ">> \o split(lines[k + 1])[1])
                > max_width

\* C13 witness: a line of two words that is exactly max_width wide, followed
\* by another line.
GreedyWitness ==
    /\ pc = "drawn"
    /\ Len(lines) >= 2
    /\ Len(split(lines[1])) = 2
    /\ getbbox_width(NormalFont, lines[1]) = max_width

---------------------------------------------------------------------------
\* Properties of repeated layout passes.

---------------------------------------------------------------------------
\* Properties of the interval loop.

\* C14: a generation is started only for a minute later than every minute a
\* generation has succeeded for; so no generation is started while the sampled
\* minute is one that already succeeded, and the minutes of successive
\* successful generations strictly increase.
OncePerMinute ==
    loop_pc = "run" => \A m \in succeeded : m < current_minute

\* C14 witness: two generations have succeeded, and the last sample, taken in
\* the minute of the second one, started nothing.
OncePerMinuteWitness ==
    /\ loop_pc = "sleep1"
    /\ waited
    /\ Cardinality(succeeded) >= 2
    /\ current_minute = last_minute
    /\ current_minute \in succeeded

FailureKeepsLastMinute ==
    [][(loop_pc = "run" /\ loop_pc' # "run" /\ success' = "False")
          => (last_minute' = last_minute /\ loop_pc' = "sleep30")]_vars

\* After the 30 s sleep the loop is back at its test, and the iteration that
\* follows a failure starts a generation again, unless the clock was set back
\* behind the minute of the failed one.
FailureIsRetried ==
    /\ [][(loop_pc = "sleep30" /\ loop_pc' # "sleep30") => loop_pc' = "while"]_vars
    /\ [][(loop_pc = "sample" /\ loop_pc' # "sample" /\ success = "False"
              /\ clock >= failed_minute) => loop_pc' = "run"]_vars

\* With the flag cleared the loop test leaves the loop; by then at most one
\* generation was started after the signal; and the loop does leave.
SignalEndsLoop ==
    /\ [][(loop_pc = "while" /\ loop_pc' # "while" /\ ~running) => loop_pc' = "exited"]_vars
    /\ [](late_starts <= 1)
    /\ (~running ~> loop_pc = "exited")

---------------------------------------------------------------------------
\* Properties of the time source.

\* The servers to try, in order, as the claim has them.
FallbackOrder ==
    (IF ntp_server \in {"None", ""} THEN <<>> ELSE <<ntp_server>>)
        \o <<"time.google.com", "time.windows.com", "time.apple.com",
             "pool.ntp.org", "time.nist.gov">>

\* C16: get_current_time always comes to return a time.  With NTP requested
\* and available the requests made are the custom server (if given) and then
\* the default servers in list order, as far as the first one that answers,
\* whose time is returned; local time is returned only after all of them
\* failed.  Otherwise no request is made and local time is returned.
FallbackOrderKept ==
    /\ time_pc # "done" => ENABLED TimeNext
    /\ time_pc = "done" => current_time \in Minutes
    /\ (use_ntp /\ ntp_available) =>
          /\ Len(queried) <= Len(FallbackOrder)
          /\ \A i \in 1..Len(queried) : queried[i].server = FallbackOrder[i]
          /\ \A i \in 1..(Len(queried) - 1) : ~queried[i].answered
          /\ time_pc = "done" =>
                /\ queried # <<>>
                /\ IF queried[Len(queried)].answered
                   THEN time_source = queried[Len(queried)].server
                   ELSE time_source = "local" /\ Len(queried) = Len(FallbackOrder)
    /\ ~(use_ntp /\ ntp_available) =>
          /\ queried = <<>>
          /\ time_pc = "done" => time_source = "local"

\* C16 witness: the custom server and the first two default servers failed
\* and the third default server's time was returned.
FallbackOrderKeptWitness ==
    /\ time_pc = "done"
    /\ ntp_server = "ntp.example.org"
    /\ Len(queried) = 4
    /\ time_source = "time.apple.com"
    /\ current_time \in Minutes

====
